---- MODULE Spec2Model ----
(***************************************************************************)
(* Model of src/index.js (excel-constructor): createBuffer and the         *)
(* worksheet helpers it exports.  The spreadsheet library is an opaque     *)
(* interface: a worksheet records the name, page setup, row fonts, column  *)
(* widths/alignments, cell values and merged ranges the code hands to it,  *)
(* under the keys (column number, address string) the code passes.         *)
(***************************************************************************)
EXTENDS Integers, Sequences, FiniteSets, TLC

VARIABLES
    pc,              \* position of the operation under way: idle, loop, done, failed
    error,           \* the error thrown by the operation, Undefined when none
    argHeaders,      \* createBuffer: the headers argument as passed
    argData,         \* createBuffer: the data argument as passed
    argNames,        \* createBuffer: the worksheetNames argument as passed
    headers,         \* createBuffer: headers after line 19
    data,            \* createBuffer: data after line 20
    worksheetNames,  \* createBuffer: worksheetNames after line 21
    i,               \* createBuffer: loop index of line 29
    workbook,        \* createBuffer: worksheets of the workbook, in creation order
    buffer,          \* createBuffer: the value returned, Undefined before the return
    colIndexArg,     \* getExcelColumnLetter: the argument
    letter,          \* getExcelColumnLetter: the returned string (char codes)
    worksheet,       \* the worksheet argument of setComplexHeaders / setPartialColumnWidths
    complexHeaders,  \* setComplexHeaders: the headers argument
    headerIdx,       \* setComplexHeaders: entries of the for-of loop already handled
    partialWidths,   \* setPartialColumnWidths: the widths argument
    globalColumn     \* the property `column` of the global object (sloppy-mode script)

vars == <<pc, error, argHeaders, argData, argNames, headers, data, worksheetNames,
          i, workbook, buffer, colIndexArg, letter, worksheet, complexHeaders,
          headerIdx, partialWidths, globalColumn>>

createBufferVars == <<argHeaders, argData, argNames, headers, data, worksheetNames,
                      i, workbook, buffer>>

letterVars == <<colIndexArg, letter>>

complexVars == <<complexHeaders, headerIdx>>

partialVars == <<partialWidths, globalColumn>>

-----------------------------------------------------------------------------
(* Bounds of the model *)

MaxSheets == 2

MaxRows == 2

MaxFields == 27

MaxColIndex == 1000

MaxEntries == 2

MaxItems == 2

-----------------------------------------------------------------------------
(* JavaScript values *)

Undefined == [kind |-> "undefined"]

Arr(items) == [kind |-> "array", items |-> items]

Str(s) == [kind |-> "string", val |-> s]

Num(n) == [kind |-> "number", val |-> n]

\* Array.isArray(v)
IsArray(v) == v.kind = "array"

\* a.length of an array
Length(a) == Len(a.items)

\* a[idx], 0-based; undefined past the end
At(a, idx) == IF idx + 1 \in DOMAIN a.items THEN a.items[idx + 1] ELSE Undefined

\* v.forEach(...) of a value that is no array (undefined, or a plain object)
TypeError == [kind |-> "TypeError", message |-> <<Str("forEach is not a function")>>,
              cause |-> Undefined]

\* o[field] of a plain object
Get(o, field) == IF field \in DOMAIN o.props THEN o.props[field] ELSE Undefined

\* Object.keys(o): the keys in insertion order
ObjectKeys(o) == o.keys

\* Object.values(o): the values in key order
ObjectValues(o) == [n \in 1..Len(o.keys) |-> o.props[o.keys[n]]]

\* String.fromCharCode(code): a one-character string, as its char codes
fromCharCode(code) == <<code % 65536>>

\* a cell address string: column part (char codes) followed by the row number
CellRef(col, row) == [kind |-> "string", col |-> col, row |-> row]

\* the empty string ''
EmptyString == [kind |-> "string", col |-> <<>>, row |-> 0]

\* ToBoolean of a value that is undefined or a string
Truthy(v) == v.kind # "undefined" /\ v # EmptyString

SeqsUpTo(S, n) == UNION {[1..k -> S] : k \in 0..n}

Range(s) == {s[n] : n \in DOMAIN s}

-----------------------------------------------------------------------------
(* Worksheets (the library object, as the code uses it) *)

PaperSize == 9

StartDataRow == 2

DefaultAlignment == [vertical |-> "middle", horizontal |-> "center", wrapText |-> TRUE]

NoCells == [r \in {} |-> Undefined]

\* workbook.addWorksheet(name, {pageSetup})
NewWorksheet(name, pageSetup) ==
    [name |-> name, pageSetup |-> pageSetup, boldRows |-> {}, widths |-> NoCells,
     alignments |-> NoCells, cells |-> NoCells, merges |-> <<>>]

\* f with the keys of g added or overwritten
Overwrite(f, g) ==
    [k \in DOMAIN f \cup DOMAIN g |-> IF k \in DOMAIN g THEN g[k] ELSE f[k]]

\* worksheet.getCell(ref).value = value
SetCellValue(ws, ref, value) ==
    [ws EXCEPT !.cells = Overwrite(@, [r \in {ref} |-> value])]

addWorksheet(worksheetName) ==
    NewWorksheet(worksheetName, [paperSize |-> PaperSize, orientation |-> "landscape"])

makeRowsBold(ws, rows) ==
    LET rowList == IF IsArray(rows) THEN rows.items ELSE <<rows>>
    IN  [ws EXCEPT !.boldRows = @ \cup Range(rowList)]

\* setColumnWidths with getColumn(index) in place of getColumn(index + 1)
setColumnWidths_zeroBased(ws, widths) ==
    [ws EXCEPT
       !.widths = Overwrite(@, [c \in 0..(Len(widths) - 1) |-> widths[c + 1]]),
       !.alignments = Overwrite(@, [c \in 0..(Len(widths) - 1) |-> DefaultAlignment])]

setColumnWidths(ws, widths) ==
    [ws EXCEPT
       !.widths = Overwrite(@, [c \in {index + 1 : index \in 0..(Len(widths) - 1)}
                                  |-> widths[c]]),
       !.alignments = Overwrite(@, [c \in {index + 1 : index \in 0..(Len(widths) - 1)}
                                      |-> DefaultAlignment])]

\* lines 119-121: headers.forEach writes header `index` at the address
\* fromCharCode(65 + index) + '1'
setHeaders(ws, headerValues) ==
    [ws EXCEPT
       !.cells = Overwrite(@,
           [r \in {CellRef(fromCharCode(65 + index), 1) :
                     index \in 0..(Len(headerValues) - 1)}
              |-> headerValues[(CHOOSE index \in 0..(Len(headerValues) - 1) :
                                  r = CellRef(fromCharCode(65 + index), 1)) + 1]])]

\* lines 161-164: data.forEach writes item `index` at column
\* fromCharCode(65 + index) of the row rowIndex
addDataRow(ws, rowIndex, values) ==
    [ws EXCEPT
       !.cells = Overwrite(@,
           [r \in {CellRef(fromCharCode(65 + index), rowIndex) :
                     index \in 0..(Len(values) - 1)}
              |-> values[(CHOOSE index \in 0..(Len(values) - 1) :
                            r = CellRef(fromCharCode(65 + index), rowIndex)) + 1]])]

\* worksheet.mergeCells(`${cellFrom}:${cellTo}`), then the anchor's value
mergeCells(ws, cellFrom, cellTo, value) ==
    SetCellValue([ws EXCEPT !.merges = Append(@, <<cellFrom, cellTo>>)], cellFrom, value)

-----------------------------------------------------------------------------
(* Errors *)

\* new Error(message, options): the message is kept as given; of the second
\* argument only an own property `cause` is looked at
NewError(message, options) ==
    [kind |-> "Error", message |-> message,
     cause |-> IF options.kind = "object" /\ "cause" \in DOMAIN options.props
               THEN options.props.cause ELSE Undefined]

SizeMismatchError ==
    NewError(<<Str("Size of headers, data and worksheetNames must be equal")>>, Undefined)

\* ToNumber of a boolean
ToNumber(b) == IF b THEN 1 ELSE 0

\* the condition of line 23: (headers.length != data.length) != worksheetNames.length
SizeCheckFails(h, d, w) == ToNumber(Length(h) # Length(d)) # Length(w)

\* lines 19-21: x = Array.isArray(x) ? x : [x]
Normalize(x) == IF IsArray(x) THEN x ELSE Arr(<<x>>)

-----------------------------------------------------------------------------
(* Inputs of createBuffer.  Field names are natural numbers standing for    *)
(* distinct non-numeric keys; a header object lists its keys in insertion   *)
(* order.                                                                    *)

\* the display label of a field
Label(field) == [kind |-> "string", label |-> field]

HeaderObject(keys) ==
    [kind |-> "object", keys |-> keys,
     props |-> [f \in Range(keys) |-> [name |-> Label(f), width |-> 10 * f]]]

\* two fields, inserted in the order 2, 1
SmallHeader == HeaderObject(<<2, 1>>)

\* MaxFields fields, inserted in the order 1, 2, ...
WideHeader == HeaderObject([f \in 1..MaxFields |-> f])

HeaderObjects == {SmallHeader, WideHeader}

\* row object number j; the partial one lacks field 2
RowObject(j, partial) ==
    [kind |-> "object",
     props |-> [f \in (1..MaxFields) \ (IF partial THEN {2} ELSE {}) |-> Num(100 * j + f)]]

\* an array of n row objects; the last one is partial when lastPartial
DataArray(n, lastPartial) ==
    Arr([j \in 1..n |-> RowObject(j, lastPartial /\ j = n)])

DataArrays == {DataArray(n, p) : n \in 0..MaxRows, p \in BOOLEAN}

\* worksheet names, by position in a names array
SheetNames == <<Str("Sheet A"), Str("Sheet B"), Str("Sheet C"), Str("Sheet D")>>

HeadersArgs == HeaderObjects \cup {Arr(s) : s \in SeqsUpTo(HeaderObjects, MaxSheets)}

DataArgs == DataArrays \cup {Arr(s) : s \in SeqsUpTo(DataArrays, MaxSheets)}

\* a single name, or an array of up to MaxSheets distinct names
NamesArgs ==
    {SheetNames[1], SheetNames[2]}
    \cup {Arr(SubSeq(SheetNames, 1, n)) : n \in 0..MaxSheets}

-----------------------------------------------------------------------------
(* createBuffer *)

\* lines 45-51: one addDataRow per element of sheetData, at row startDataRow + index
RECURSIVE AddDataRows(_, _, _, _)
AddDataRows(ws, fieldNames, sheetData, index) ==
    IF index >= Length(sheetData) THEN ws
    ELSE LET dataItem == At(sheetData, index)
             values == [n \in 1..Len(fieldNames) |-> Get(dataItem, fieldNames[n])]
         IN  AddDataRows(addDataRow(ws, StartDataRow + index, values),
                         fieldNames, sheetData, index + 1)

\* lines 30-51: the body of the loop for one index; the worksheet as it is when
\* the body ends or throws, and the error thrown (Undefined when none)
SheetBody(sheetHeaders, sheetData) ==
    LET ws0 == addWorksheet(Undefined)
        ws1 == makeRowsBold(ws0, Arr(<<1>>))
        headerValues == [n \in 1..Len(ObjectKeys(sheetHeaders)) |->
                            ObjectValues(sheetHeaders)[n].name]
        ws2 == setHeaders(ws1, headerValues)
        columnWidths == [n \in 1..Len(ObjectKeys(sheetHeaders)) |->
                            ObjectValues(sheetHeaders)[n].width]
        ws3 == setColumnWidths(ws2, columnWidths)
        fieldNames == ObjectKeys(sheetHeaders)
    IN  IF IsArray(sheetData)
        THEN [sheet |-> AddDataRows(ws3, fieldNames, sheetData, 0), error |-> Undefined]
        ELSE [sheet |-> ws3, error |-> TypeError]

\* workbook.xlsx.writeBuffer(): the serialized worksheets
getBuffer(wb) == [kind |-> "buffer", worksheets |-> wb]

\* lines 18-27: normalization and the size check
CreateBufferCall ==
    /\ pc = "idle"
    /\ \E h \in HeadersArgs, d \in DataArgs, w \in NamesArgs :
          /\ argHeaders' = h
          /\ argData' = d
          /\ argNames' = w
          /\ headers' = Normalize(h)
          /\ data' = Normalize(d)
          /\ worksheetNames' = Normalize(w)
          /\ IF SizeCheckFails(Normalize(h), Normalize(d), Normalize(w))
             THEN error' = SizeMismatchError /\ pc' = "failed"
             ELSE error' = error /\ pc' = "loop"
    /\ UNCHANGED <<i, workbook, buffer, letterVars, worksheet, complexVars, partialVars>>

\* lines 29-52: one iteration of the loop over headers
LoopIteration ==
    /\ pc = "loop"
    /\ i < Length(headers)
    /\ LET body == SheetBody(At(headers, i), At(data, i))
       IN  /\ workbook' = Append(workbook, body.sheet)
           /\ error' = body.error
           /\ IF body.error = Undefined
              THEN i' = i + 1 /\ pc' = pc
              ELSE i' = i /\ pc' = "failed"
    /\ UNCHANGED <<argHeaders, argData, argNames, headers, data, worksheetNames, buffer,
                   letterVars, worksheet, complexVars, partialVars>>

\* line 54: the loop is over, the workbook is serialized and returned
Serialize ==
    /\ pc = "loop"
    /\ ~(i < Length(headers))
    /\ buffer' = getBuffer(workbook)
    /\ pc' = "done"
    /\ UNCHANGED <<error, argHeaders, argData, argNames, headers, data, worksheetNames,
                   i, workbook, letterVars, worksheet, complexVars, partialVars>>

\* the loop of lines 29-52 from index idx on, then line 54
RECURSIVE RunLoop(_, _, _, _)
RunLoop(h, d, idx, wb) ==
    IF idx < Length(h)
    THEN LET body == SheetBody(At(h, idx), At(d, idx))
         IN  IF body.error = Undefined
             THEN RunLoop(h, d, idx + 1, Append(wb, body.sheet))
             ELSE [error |-> body.error, workbook |-> Append(wb, body.sheet),
                   buffer |-> Undefined]
    ELSE [error |-> Undefined, workbook |-> wb, buffer |-> getBuffer(wb)]

\* the whole call: what it throws, the worksheets it created, what it returns
createBuffer(h, d, w) ==
    IF SizeCheckFails(Normalize(h), Normalize(d), Normalize(w))
    THEN [error |-> SizeMismatchError, workbook |-> <<>>, buffer |-> Undefined]
    ELSE RunLoop(Normalize(h), Normalize(d), 0, <<>>)

Init ==
    /\ pc = "idle"
    /\ error = Undefined
    /\ argHeaders = Undefined
    /\ argData = Undefined
    /\ argNames = Undefined
    /\ headers = Undefined
    /\ data = Undefined
    /\ worksheetNames = Undefined
    /\ i = 0
    /\ workbook = <<>>
    /\ buffer = Undefined
    /\ colIndexArg = 0
    /\ letter = <<>>
    /\ worksheet = Undefined
    /\ complexHeaders = <<>>
    /\ headerIdx = 0
    /\ partialWidths = <<>>
    /\ globalColumn = Undefined

Next == CreateBufferCall \/ LoopIteration \/ Serialize

Spec == Init /\ [][Next]_vars

-----------------------------------------------------------------------------
(* getExcelColumnLetter *)

\* the while loop of lines 206-210
RECURSIVE LetterLoop(_, _)
LetterLoop(colIndex, acc) ==
    IF colIndex > 0
    THEN LET mod == (colIndex - 1) % 26
         IN  LetterLoop((colIndex - 1) \div 26, fromCharCode(65 + mod) \o acc)
    ELSE acc

\* the loop with colIndex % 26 in place of (colIndex - 1) % 26
RECURSIVE LetterLoop_offByOne(_, _)
LetterLoop_offByOne(colIndex, acc) ==
    IF colIndex > 0
    THEN LET mod == colIndex % 26
         IN  LetterLoop_offByOne((colIndex - 1) \div 26, fromCharCode(65 + mod) \o acc)
    ELSE acc

getExcelColumnLetter_offByOne(colIndex) == LetterLoop_offByOne(colIndex, <<>>)

getExcelColumnLetter(colIndex) == LetterLoop(colIndex, <<>>)

GetExcelColumnLetterCall ==
    /\ pc = "idle"
    /\ \E n \in 1..MaxColIndex :
          /\ colIndexArg' = n
          /\ letter' = getExcelColumnLetter(n)
    /\ pc' = "done"
    /\ UNCHANGED <<error, createBufferVars, worksheet, complexVars, partialVars>>

NextLetter == GetExcelColumnLetterCall

SpecLetter == Init /\ [][NextLetter]_vars

-----------------------------------------------------------------------------
(* setComplexHeaders *)

A1 == CellRef(<<65>>, 1)

B1 == CellRef(<<66>>, 1)

\* entries of the headers array: every combination of cell / from / to / value
ComplexEntries ==
    {[kind |-> "object", props |-> [cell |-> c, from |-> f, to |-> t, value |-> v]] :
        c \in {Undefined, EmptyString, A1}, f \in {Undefined, A1},
        t \in {Undefined, B1}, v \in {Str("x"), Str("Title")}}

\* worksheets a helper may be handed: a fresh one, and one with a header row
GivenWorksheets ==
    {addWorksheet(Str("Sheet A")),
     setColumnWidths(setHeaders(addWorksheet(Str("Sheet A")), <<Label(1), Label(2)>>),
                     <<10, 20>>)}

ConfigurationError(header) ==
    NewError(<<Str("Either cell or from & to fields must be present in headers array objects:")>>,
             header)

\* the loop body with `if (from && to)` in place of `else if (from && to)`
ComplexHeaderBody_noElse(ws, header) ==
    LET ws1 == IF Truthy(header.props.cell)
               THEN SetCellValue(ws, header.props.cell, header.props.value)
               ELSE ws
    IN  IF Truthy(header.props.from) /\ Truthy(header.props.to)
        THEN [sheet |-> mergeCells(ws1, header.props.from, header.props.to,
                                   header.props.value),
              error |-> Undefined]
        ELSE IF Truthy(header.props.cell)
        THEN [sheet |-> ws1, error |-> Undefined]
        ELSE [sheet |-> ws, error |-> ConfigurationError(header)]

\* lines 144-150: the body of the for-of loop for one entry
ComplexHeaderBody(ws, header) ==
    IF Truthy(header.props.cell)
    THEN [sheet |-> SetCellValue(ws, header.props.cell, header.props.value),
          error |-> Undefined]
    ELSE IF Truthy(header.props.from) /\ Truthy(header.props.to)
    THEN [sheet |-> mergeCells(ws, header.props.from, header.props.to, header.props.value),
          error |-> Undefined]
    ELSE [sheet |-> ws, error |-> ConfigurationError(header)]

InitWithWorksheet ==
    /\ pc = "idle"
    /\ error = Undefined
    /\ argHeaders = Undefined
    /\ argData = Undefined
    /\ argNames = Undefined
    /\ headers = Undefined
    /\ data = Undefined
    /\ worksheetNames = Undefined
    /\ i = 0
    /\ workbook = <<>>
    /\ buffer = Undefined
    /\ colIndexArg = 0
    /\ letter = <<>>
    /\ worksheet \in GivenWorksheets
    /\ complexHeaders = <<>>
    /\ headerIdx = 0
    /\ partialWidths = <<>>
    /\ globalColumn = Undefined

SetComplexHeadersCall ==
    /\ pc = "idle"
    /\ complexHeaders' \in SeqsUpTo(ComplexEntries, MaxEntries)
    /\ headerIdx' = 0
    /\ pc' = "loop"
    /\ UNCHANGED <<error, createBufferVars, letterVars, worksheet, partialVars>>

ComplexHeaderStep ==
    /\ pc = "loop"
    /\ headerIdx < Len(complexHeaders)
    /\ LET body == ComplexHeaderBody(worksheet, complexHeaders[headerIdx + 1])
       IN  /\ worksheet' = body.sheet
           /\ error' = body.error
           /\ IF body.error = Undefined
              THEN headerIdx' = headerIdx + 1 /\ pc' = pc
              ELSE headerIdx' = headerIdx /\ pc' = "failed"
    /\ UNCHANGED <<createBufferVars, letterVars, complexHeaders, partialVars>>

SetComplexHeadersReturn ==
    /\ pc = "loop"
    /\ headerIdx = Len(complexHeaders)
    /\ pc' = "done"
    /\ UNCHANGED <<error, createBufferVars, letterVars, worksheet, complexVars, partialVars>>

NextComplex == SetComplexHeadersCall \/ ComplexHeaderStep \/ SetComplexHeadersReturn

SpecComplex == InitWithWorksheet /\ [][NextComplex]_vars

-----------------------------------------------------------------------------
(* setPartialColumnWidths *)

\* the library's column-letter to column-number conversion behind getColumn(colName)
RECURSIVE l2n(_)
l2n(colName) ==
    IF colName = <<>> THEN 0
    ELSE 26 * l2n(SubSeq(colName, 1, Len(colName) - 1)) + (colName[Len(colName)] - 64)

\* worksheet.getColumn(colName): the column object, identified by its number
getColumn(colName) == [kind |-> "column", number |-> l2n(colName)]

ColumnNames == {<<65>>, <<66>>, <<65, 65>>}

WidthItems ==
    {[columns |-> cs, width |-> wd] : cs \in SeqsUpTo(ColumnNames, 2), wd \in {5, 30}}

\* lines 106-109: the for-of loop over item.columns, from position n on; st is
\* the worksheet and the global `column`
RECURSIVE PartialColumnsLoop(_, _, _)
PartialColumnsLoop(st, item, n) ==
    IF n > Len(item.columns) THEN st
    ELSE LET column == getColumn(item.columns[n])
         IN  PartialColumnsLoop(
                 [sheet |-> [st.sheet EXCEPT !.widths =
                                Overwrite(@, [c \in {column.number} |-> item.width])],
                  column |-> column],
                 item, n + 1)

\* lines 105-110: widths.forEach, from position n on
RECURSIVE setPartialColumnWidths(_, _, _)
setPartialColumnWidths(st, widths, n) ==
    IF n > Len(widths) THEN st
    ELSE setPartialColumnWidths(PartialColumnsLoop(st, widths[n], 1), widths, n + 1)

SetPartialColumnWidthsCall ==
    /\ pc = "idle"
    /\ \E widths \in SeqsUpTo(WidthItems, MaxItems) :
          LET st == setPartialColumnWidths([sheet |-> worksheet, column |-> globalColumn],
                                           widths, 1)
          IN  /\ partialWidths' = widths
              /\ worksheet' = st.sheet
              /\ globalColumn' = st.column
    /\ pc' = "done"
    /\ UNCHANGED <<error, createBufferVars, letterVars, complexVars>>

NextPartial == SetPartialColumnWidthsCall

SpecPartial == InitWithWorksheet /\ [][NextPartial]_vars

-----------------------------------------------------------------------------
(* Properties of createBuffer, under Spec *)

Called == pc # "idle"

AllEqual ==
    /\ Length(headers) = Length(data)
    /\ Length(data) = Length(worksheetNames)

\* C1: a call whose normalized headers, data and worksheetNames do not all have
\* the same length fails with the size-mismatch error before any worksheet is
\* created: no worksheet is added, no cell is written, nothing is returned.
C1_SizeMismatchRejected ==
    (Called /\ ~AllEqual) =>
        /\ pc = "failed"
        /\ error = SizeMismatchError
        /\ workbook = <<>>
        /\ buffer = Undefined

\* C2: a call with n >= 1 headers, n data arrays and n names never raises the
\* size-mismatch error, creates its worksheets one per index in index order, and
\* returns a workbook of exactly n worksheets.
C2_EqualLengthsAccepted ==
    (Called /\ AllEqual /\ Length(headers) >= 1) =>
        /\ error # SizeMismatchError
        /\ Len(workbook) <= Length(headers)
        /\ pc = "done" => Len(buffer.worksheets) = Length(headers)

\* C3: the worksheet created for index k of the normalized sequences is named
\* worksheetNames[k] and has landscape page setup with the fixed paper size.
C3_SheetNamedAndLandscape ==
    \A s \in 1..Len(workbook) :
        /\ workbook[s].name = At(worksheetNames, s - 1)
        /\ workbook[s].pageSetup = [paperSize |-> PaperSize, orientation |-> "landscape"]

\* the cells the sheet of header object h and data array d must hold: labels in
\* row 1, row object j in row 2+j, field k in the k-th spreadsheet column
ExpectedCells(h, d) ==
    LET keys == ObjectKeys(h)
        m == Len(keys)
        refs == {CellRef(getExcelColumnLetter(k), 1) : k \in 1..m}
                \cup {CellRef(getExcelColumnLetter(k), 2 + j) :
                        k \in 1..m, j \in 0..(Length(d) - 1)}
    IN  [r \in refs |->
           LET k == CHOOSE k \in 1..m : r.col = getExcelColumnLetter(k)
           IN  IF r.row = 1 THEN h.props[keys[k]].name
               ELSE Get(At(d, r.row - 2), keys[k])]

\* C4: every populated worksheet holds, for fields f_1..f_m in key order, the
\* label of f_k at row 1 and data[j][f_k] (blank when missing) at row 2+j, both
\* in the k-th spreadsheet column (A..Z, AA, ...), and no other cell.
C4_CellsInSpreadsheetColumns ==
    \A s \in 1..i :
        workbook[s].cells = ExpectedCells(At(headers, s - 1), At(data, s - 1))

SingleArguments ==
    /\ argHeaders.kind = "object"
    /\ argData \in DataArrays
    /\ argNames.kind = "string"

\* C5: a call with a single header object, a single array of row objects and a
\* single name ends as the call with each of the three wrapped in a one-element
\* array ends: same error, same worksheets, same returned workbook.
C5_SingleSameAsWrapped ==
    (pc \in {"done", "failed"} /\ SingleArguments) =>
        [error |-> error, workbook |-> workbook, buffer |-> buffer]
            = createBuffer(Arr(<<argHeaders>>), Arr(<<argData>>), Arr(<<argNames>>))

\* C9: in every populated worksheet row 1 is bold and no other row is, and
\* column k (k = 1..m) has the width of field f_k and the alignment
\* middle/center/wrap; no column beyond m has a width or an alignment.
C9_BoldRowWidthsAlignment ==
    \A s \in 1..i :
        LET h == At(headers, s - 1)
            m == Len(ObjectKeys(h))
        IN  /\ workbook[s].boldRows = {1}
            /\ workbook[s].widths = [k \in 1..m |-> h.props[ObjectKeys(h)[k]].width]
            /\ workbook[s].alignments =
                  [k \in 1..m |->
                     [vertical |-> "middle", horizontal |-> "center", wrapText |-> TRUE]]

\* a returned workbook of two populated sheets, one of them MaxFields columns wide
C9_Witness ==
    /\ pc = "done"
    /\ i = 2
    /\ At(headers, 0) = SmallHeader
    /\ At(headers, 1) = WideHeader
    /\ Len(buffer.worksheets) = 2

-----------------------------------------------------------------------------
(* Properties of getExcelColumnLetter, under SpecLetter *)

\* spreadsheet order of column labels: shorter first, then lexicographic
Precedes(a, b) ==
    \/ Len(a) < Len(b)
    \/ /\ Len(a) = Len(b)
       /\ \E p \in 1..Len(a) :
             /\ a[p] < b[p]
             /\ \A q \in 1..(p - 1) : a[q] = b[q]

\* C6: for n in 1..MaxColIndex the call returns a non-empty string over A..Z
\* that differs from the string of every other index, follows the string of
\* every smaller index in spreadsheet order, and is A, Z, AA, ZZ, AAA at
\* 1, 26, 27, 702, 703.
C6_BijectiveBase26 ==
    pc = "done" =>
        /\ letter # <<>>
        /\ \A p \in 1..Len(letter) : letter[p] \in 65..90
        /\ \A m \in 1..MaxColIndex :
              /\ m # colIndexArg => getExcelColumnLetter(m) # letter
              /\ m < colIndexArg => Precedes(getExcelColumnLetter(m), letter)
        /\ colIndexArg = 1 => letter = <<65>>
        /\ colIndexArg = 26 => letter = <<90>>
        /\ colIndexArg = 27 => letter = <<65, 65>>
        /\ colIndexArg = 702 => letter = <<90, 90>>
        /\ colIndexArg = 703 => letter = <<65, 65, 65>>

C6_Witness == pc = "done" /\ colIndexArg = 703 /\ letter = <<65, 65, 65>>

-----------------------------------------------------------------------------
(* Properties of setComplexHeaders, under SpecComplex *)

\* C7: when the loop meets an entry with neither a cell nor a from/to pair the
\* call fails with an error that carries the entry: the entry is part of the
\* error's message or is the error's attached data.
C7_ErrorCarriesEntry ==
    pc = "failed" =>
        LET entry == complexHeaders[headerIdx + 1]
        IN  /\ error.kind = "Error"
            /\ entry \in Range(error.message) \/ error.cause = entry

\* C8: the entries are handled one at a time in sequence order; an entry naming
\* a cell sets that cell's value and merges nothing; otherwise an entry naming
\* from and to merges from:to and sets the value of `from`; never both.
C8_OneShapePerEntry ==
    [][(pc = "loop" /\ headerIdx < Len(complexHeaders)) =>
        LET e == complexHeaders[headerIdx + 1].props
            written(ref) == [r \in DOMAIN worksheet.cells \cup {ref} |->
                               IF r = ref THEN e.value ELSE worksheet.cells[r]]
        IN  IF Truthy(e.cell)
            THEN /\ worksheet' = [worksheet EXCEPT !.cells = written(e.cell)]
                 /\ headerIdx' = headerIdx + 1
            ELSE (Truthy(e.from) /\ Truthy(e.to)) =>
                 /\ worksheet' = [worksheet EXCEPT
                                    !.cells = written(e.from),
                                    !.merges = Append(@, <<e.from, e.to>>)]
                 /\ headerIdx' = headerIdx + 1]_vars

\* a call that handled a merge entry and then a cell entry that also has from/to
C8_Witness ==
    /\ pc = "done"
    /\ headerIdx = 2
    /\ ~Truthy(complexHeaders[1].props.cell)
    /\ Truthy(complexHeaders[2].props.cell)
    /\ Truthy(complexHeaders[2].props.from) /\ Truthy(complexHeaders[2].props.to)
    /\ worksheet.merges = <<<<A1, B1>>>>
    /\ worksheet.cells[A1] = complexHeaders[2].props.value

-----------------------------------------------------------------------------
(* Properties of setPartialColumnWidths, under SpecPartial *)

\* the items of widths that name column number c, by position
ItemsNaming(widths, c) ==
    {n \in 1..Len(widths) : \E q \in 1..Len(widths[n].columns) :
                               l2n(widths[n].columns[q]) = c}

\* C10: the call sets the width of each column named by some item to the width
\* of the last item naming it, and changes nothing else: no other width, no
\* alignment, no cell, nothing outside the worksheet (global variables included).
C10_OnlyNamedWidthsChange ==
    [][(pc = "idle" /\ pc' = "done") =>
        LET named == {c \in {l2n(nm) : nm \in ColumnNames} :
                         ItemsNaming(partialWidths', c) # {}}
            lastWidth(c) ==
                partialWidths'[CHOOSE n \in ItemsNaming(partialWidths', c) :
                                  \A o \in ItemsNaming(partialWidths', c) : o <= n].width
        IN  /\ worksheet' = [worksheet EXCEPT !.widths =
                               [c \in DOMAIN worksheet.widths \cup named |->
                                  IF c \in named THEN lastWidth(c)
                                  ELSE worksheet.widths[c]]]
            /\ globalColumn' = globalColumn]_vars

====
